---- MODULE Spec2Model ----
(***************************************************************************)
(* Model of src/mcp/mcp_email_server.py: the module-level configuration   *)
(* and the three tools send_email, send_email_with_attachment and          *)
(* send_bulk_emails.  Each tool is followed statement by statement; `log`  *)
(* records the calls the tool makes on the smtplib.SMTP transport.         *)
(***************************************************************************)
EXTENDS Integers, Sequences, FiniteSets, Bags, TLC

VARIABLES
    environ,        \* os.environ, a function from the variable names to values
    imported,       \* TRUE iff the module-level code ran to its end
    EMAIL_FROM, SMTP_SERVER, SMTP_PORT, SMTP_USERNAME, SMTP_PASSWORD,
    pc,             \* position in the running tool: "idle", a step name, "done"
    op,             \* the tool being run
    args,           \* its arguments
    locals,         \* from_email, smtp_server, smtp_port, username, password
    msg,            \* the MIME message under construction
    recipient_list, \* send_bulk_emails: the parsed recipients
    idx,            \* send_bulk_emails: position of the for loop
    successful,     \* send_bulk_emails: successful
    failed,         \* send_bulk_emails: failed
    log,            \* calls made on the SMTP transport by this invocation
    session,        \* "none", "open" or "closed": the socket behind `server`
    exc,            \* str(e) of the exception being propagated
    result,         \* the value returned to the caller
    escaped         \* TRUE iff an exception left the tool

vars == <<environ, imported, EMAIL_FROM, SMTP_SERVER, SMTP_PORT, SMTP_USERNAME,
          SMTP_PASSWORD, pc, op, args, locals, msg, recipient_list, idx,
          successful, failed, log, session, exc, result, escaped>>

config == <<environ, imported, EMAIL_FROM, SMTP_SERVER, SMTP_PORT,
            SMTP_USERNAME, SMTP_PASSWORD>>

bulk == <<recipient_list, idx, successful, failed>>

-----------------------------------------------------------------------------
\* Bounds and alphabets of the inputs.

\* Longest `recipients` argument of send_bulk_emails, in characters.
MaxLen == 3

\* Characters of addresses and recipient strings: two letters, the separator
\* and a whitespace character.
Alphabet == {"a", "b", ",", " "}

Strings(n) == UNION {[1..k -> Alphabet] : k \in 0..n}

ToEmails == {<<"a">>, <<"b">>}

BodyTypes == {"plain", "html"}

\* The attachment paths tried, and what the filesystem holds at each.
Paths == {"/tmp/report.txt", "/tmp", "/tmp/missing.txt"}

-----------------------------------------------------------------------------
\* Python values and built-ins.

\* Python's None: an unset environment variable, an unassigned name.
None == "<None>"

\* bool(v) of a str or None.
Truthy(v) == v # None /\ v # ""

\* a or b, on str/None operands.
Or(a, b) == IF Truthy(a) THEN a ELSE b

\* all([...]) over a sequence of str/None values.
All(vs) == \A i \in 1..Len(vs) : Truthy(vs[i])

\* int(s) raises TypeError on None and ValueError on a non-numeric string.
IntRaises(s) == s \notin {"0", "25", "587"}

IntOf(s) == CASE s = "0" -> 0 [] s = "25" -> 25 [] s = "587" -> 587

\* str(e) of the exception int(s) raises.
IntError(s) == IF s = None THEN "TypeError" ELSE "ValueError"

\* os.getenv(name) and os.getenv(name, default).
getenv(name) == environ[name]

getenv_default(name, default) == IF environ[name] = None THEN default ELSE environ[name]

\* os.path.exists(path) on the filesystem of the model.
path_exists(path) == path \in {"/tmp/report.txt", "/tmp"}

\* open(path, "rb") raises on a directory (and on a missing file).
open_raises(path) == path # "/tmp/report.txt"

\* s.split(","): the pieces between the commas, empty pieces kept.
RECURSIVE split(_)
split(s) ==
    IF \A i \in 1..Len(s) : s[i] # ","
    THEN <<s>>
    ELSE LET i == CHOOSE k \in 1..Len(s) :
                      s[k] = "," /\ \A j \in 1..(k - 1) : s[j] # ","
         IN  <<SubSeq(s, 1, i - 1)>> \o split(SubSeq(s, i + 1, Len(s)))

\* s.strip(): leading and trailing whitespace removed.
RECURSIVE strip(_)
strip(s) ==
    IF s = <<>> THEN s
    ELSE IF s[1] = " " THEN strip(Tail(s))
    ELSE IF s[Len(s)] = " " THEN strip(SubSeq(s, 1, Len(s) - 1))
    ELSE s

\* [email.strip() for email in recipients.split(",")]
parse_recipients(recipients) ==
    LET parts == split(recipients)
    IN  [i \in 1..Len(parts) |-> strip(parts[i])]

-----------------------------------------------------------------------------
\* Program constants.

DefaultPort == 587

DefaultServer == "smtp.gmail.com"

-----------------------------------------------------------------------------
\* Values returned by the tools.  A result is the returned string, kept as
\* its format and the values interpolated into it.

NoResult ==
    [kind |-> "none", text |-> "", to |-> <<>>, reason |-> "",
     sent |-> 0, failed_part |-> FALSE, nfailed |-> 0, failed |-> <<>>]

ErrorResult(text, reason) ==
    [NoResult EXCEPT !.kind = "error", !.text = text, !.reason = reason]

SuccessResult(text, to) ==
    [NoResult EXCEPT !.kind = "success", !.text = text, !.to = to]

\* result = f"Successfully sent to {len(successful)} recipients."
\* if failed: result += f"\nFailed for {len(failed)} recipients: {', '.join(failed)}"
SummaryResult(succ, fail) ==
    [NoResult EXCEPT !.kind = "summary",
                     !.text = "Successfully sent to {} recipients.",
                     !.sent = Len(succ),
                     !.failed_part = (fail # <<>>),
                     !.nfailed = IF fail # <<>> THEN Len(fail) ELSE 0,
                     !.failed = fail]

NoArgs ==
    [to_email |-> <<>>, use_tls |-> TRUE, body_type |-> "plain",
     attachment_path |-> "", recipients |-> <<>>]

NoLocals ==
    [from_email |-> None, smtp_server |-> None, smtp_port |-> 0,
     username |-> None, password |-> None]

NoMsg == [From |-> None, To |-> <<>>, parts |-> <<>>]

\* One call on the transport and whether it completed.
SMTPCall(name, ok, to) == [call |-> name, ok |-> ok, to |-> to]

-----------------------------------------------------------------------------
\* Module-level code, lines 18-24.

EnvNames == {"EMAIL_FROM", "SMTP_SERVER", "SMTP_PORT", "SMTP_USERNAME", "SMTP_PASSWORD"}

EnvValues(name) ==
    CASE name = "EMAIL_FROM"    -> {None, "", "me@x.com"}
      [] name = "SMTP_SERVER"   -> {None, "", "smtp.x.com"}
      [] name = "SMTP_PORT"     -> {None, "", "0", "587"}
      [] name = "SMTP_USERNAME" -> {None, "", "user"}
      [] name = "SMTP_PASSWORD" -> {None, "", "secret"}

Environments == {e \in [EnvNames -> UNION {EnvValues(n) : n \in EnvNames}] :
                    \A n \in EnvNames : e[n] \in EnvValues(n)}

\* The module body: the assignments of lines 20-24.  int(os.getenv("SMTP_PORT"))
\* on line 22 raises when the variable is unset or not a number; the import
\* then fails and the names after it are never bound.
ModuleInit ==
    /\ environ \in Environments
    /\ imported = ~IntRaises(getenv("SMTP_PORT"))
    /\ EMAIL_FROM = getenv("EMAIL_FROM")
    /\ SMTP_SERVER = getenv("SMTP_SERVER")
    /\ SMTP_PORT = IF IntRaises(getenv("SMTP_PORT")) THEN None
                   ELSE IntOf(getenv("SMTP_PORT"))
    /\ SMTP_USERNAME = IF IntRaises(getenv("SMTP_PORT")) THEN None
                       ELSE getenv("SMTP_USERNAME")
    /\ SMTP_PASSWORD = IF IntRaises(getenv("SMTP_PORT")) THEN None
                       ELSE getenv("SMTP_PASSWORD")

Init ==
    /\ ModuleInit
    /\ pc = "idle"
    /\ op = "none"
    /\ args = NoArgs
    /\ locals = NoLocals
    /\ msg = NoMsg
    /\ recipient_list = <<>>
    /\ idx = 1
    /\ successful = <<>>
    /\ failed = <<>>
    /\ log = <<>>
    /\ session = "none"
    /\ exc = ""
    /\ result = NoResult
    /\ escaped = FALSE

-----------------------------------------------------------------------------
\* Steps shared by the three tools.

\* The server dispatches one tool call at a time (mcp.run, lines 231-237):
\* a tool is entered from the idle server, with the caller's arguments.
Enter(name, a) ==
    /\ imported
    /\ pc = "idle"
    /\ op' = name
    /\ args' = a
    /\ UNCHANGED <<config, locals, msg, bulk, log, session, exc, result, escaped>>

\* The result goes back to the caller and the frame of the tool is dropped;
\* nothing of one call is kept for the next.
respond ==
    /\ pc = "done"
    /\ pc' = "idle"
    /\ op' = "none"
    /\ args' = NoArgs
    /\ locals' = NoLocals
    /\ msg' = NoMsg
    /\ recipient_list' = <<>>
    /\ idx' = 1
    /\ successful' = <<>>
    /\ failed' = <<>>
    /\ log' = <<>>
    /\ session' = "none"
    /\ exc' = ""
    /\ result' = NoResult
    /\ escaped' = FALSE
    /\ UNCHANGED config

\* A statement raises: control moves to the enclosing except clause.
Raise(reason) ==
    /\ pc' = "except"
    /\ exc' = reason

\* Except without the conversion: the exception is raised again to the caller.
Except_reraised(text) ==
    /\ pc = "except"
    /\ escaped' = TRUE
    /\ pc' = "done"
    /\ UNCHANGED <<config, op, args, locals, msg, bulk, log, session, exc, result>>

\* except Exception as e: return f"{text}{str(e)}".  The frame's `server`
\* object becomes unreachable without quit() or close() having been called;
\* whether its socket is finalised is left to the interpreter.
Except(text) ==
    /\ pc = "except"
    /\ result' = ErrorResult(text, exc)
    /\ pc' = "done"
    /\ session' \in (IF session = "open" THEN {"open", "closed"} ELSE {session})
    /\ UNCHANGED <<config, op, args, locals, msg, bulk, log, exc, escaped>>

-----------------------------------------------------------------------------
\* The credential expressions of lines 53-57, 110-114 and 185-189.

\* SMTP_PORT or int(os.getenv("SMTP_PORT", 587))
PortOrDefaultRaises ==
    SMTP_PORT = 0 /\ getenv("SMTP_PORT") # None /\ IntRaises(getenv("SMTP_PORT"))

PortOrDefault ==
    IF SMTP_PORT # 0 THEN SMTP_PORT
    ELSE IF getenv("SMTP_PORT") = None THEN DefaultPort
    ELSE IntOf(getenv("SMTP_PORT"))

\* SMTP_PORT or int(os.getenv("SMTP_PORT"))
PortOrEnvRaises == SMTP_PORT = 0 /\ IntRaises(getenv("SMTP_PORT"))

PortOrEnv == IF SMTP_PORT # 0 THEN SMTP_PORT ELSE IntOf(getenv("SMTP_PORT"))

\* The five locals of send_email and send_email_with_attachment.
CredentialsWithDefaults ==
    [from_email  |-> Or(EMAIL_FROM, getenv("EMAIL_FROM")),
     smtp_server |-> Or(SMTP_SERVER, getenv_default("SMTP_SERVER", DefaultServer)),
     smtp_port   |-> PortOrDefault,
     username    |-> Or(SMTP_USERNAME, getenv("SMTP_USERNAME")),
     password    |-> Or(SMTP_PASSWORD, getenv("SMTP_PASSWORD"))]

\* The five locals of send_bulk_emails.
CredentialsFromEnv ==
    [from_email  |-> Or(EMAIL_FROM, getenv("EMAIL_FROM")),
     smtp_server |-> Or(SMTP_SERVER, getenv("SMTP_SERVER")),
     smtp_port   |-> PortOrEnv,
     username    |-> Or(SMTP_USERNAME, getenv("SMTP_USERNAME")),
     password    |-> Or(SMTP_PASSWORD, getenv("SMTP_PASSWORD"))]

\* all([from_email, smtp_server, username, password])
ConfigComplete(c) == All(<<c.from_email, c.smtp_server, c.username, c.password>>)

-----------------------------------------------------------------------------
\* send_email, lines 31-84.

send_email_call ==
    \E to_email \in ToEmails, use_tls \in BOOLEAN, body_type \in BodyTypes :
        /\ Enter("send_email", [NoArgs EXCEPT !.to_email = to_email,
                                              !.use_tls = use_tls,
                                              !.body_type = body_type])
        /\ pc' = "config"

\* Lines 53-60.
send_email_config ==
    /\ pc = "config" /\ op = "send_email"
    /\ IF PortOrDefaultRaises
       THEN /\ Raise(IntError(getenv("SMTP_PORT")))
            /\ UNCHANGED <<locals, result>>
       ELSE /\ locals' = CredentialsWithDefaults
            /\ IF ~ConfigComplete(CredentialsWithDefaults)
               THEN /\ result' = ErrorResult("Error: Missing required email configuration. Please provide credentials or set environment variables.", "")
                    /\ pc' = "done"
               ELSE /\ pc' = "build"
                    /\ UNCHANGED result
            /\ UNCHANGED exc
    /\ UNCHANGED <<config, op, args, msg, bulk, log, session, escaped>>

\* Lines 63-69.
send_email_build ==
    /\ pc = "build" /\ op = "send_email"
    /\ msg' = [From |-> locals.from_email, To |-> args.to_email,
               parts |-> <<args.body_type>>]
    /\ pc' = "connect"
    /\ UNCHANGED <<config, op, args, locals, bulk, log, session, exc, result, escaped>>

\* Line 72: smtplib.SMTP(smtp_server, smtp_port) connects in its constructor.
send_email_connect ==
    /\ pc = "connect" /\ op = "send_email"
    /\ \E ok \in BOOLEAN :
        /\ log' = Append(log, SMTPCall("connect", ok, <<>>))
        /\ IF ok
           THEN session' = "open" /\ pc' = "starttls" /\ UNCHANGED exc
           ELSE Raise("connect failed") /\ UNCHANGED session
    /\ UNCHANGED <<config, op, args, locals, msg, bulk, result, escaped>>

\* send_email_starttls with the use_tls test dropped: STARTTLS on every call.
send_email_starttls_always ==
    /\ pc = "starttls" /\ op = "send_email"
    /\ \E ok \in BOOLEAN :
        /\ log' = Append(log, SMTPCall("starttls", ok, <<>>))
        /\ IF ok THEN pc' = "login" /\ UNCHANGED exc
                 ELSE Raise("starttls failed")
    /\ UNCHANGED <<config, op, args, locals, msg, bulk, session, result, escaped>>

\* Lines 74-75.
send_email_starttls ==
    /\ pc = "starttls" /\ op = "send_email"
    /\ IF args.use_tls
       THEN \E ok \in BOOLEAN :
               /\ log' = Append(log, SMTPCall("starttls", ok, <<>>))
               /\ IF ok THEN pc' = "login" /\ UNCHANGED exc
                        ELSE Raise("starttls failed")
       ELSE pc' = "login" /\ UNCHANGED <<log, exc>>
    /\ UNCHANGED <<config, op, args, locals, msg, bulk, session, result, escaped>>

\* Line 77.
send_email_login ==
    /\ pc = "login" /\ op = "send_email"
    /\ \E ok \in BOOLEAN :
        /\ log' = Append(log, SMTPCall("login", ok, <<>>))
        /\ IF ok THEN pc' = "send" /\ UNCHANGED exc
                 ELSE Raise("login failed")
    /\ UNCHANGED <<config, op, args, locals, msg, bulk, session, result, escaped>>

\* Line 78.
send_email_send_message ==
    /\ pc = "send" /\ op = "send_email"
    /\ \E ok \in BOOLEAN :
        /\ log' = Append(log, SMTPCall("send_message", ok, msg.To))
        /\ IF ok THEN pc' = "quit" /\ UNCHANGED exc
                 ELSE Raise("send failed")
    /\ UNCHANGED <<config, op, args, locals, msg, bulk, session, result, escaped>>

\* send_email_quit with a failure of quit() swallowed.
send_email_quit_swallowed ==
    /\ pc = "quit" /\ op = "send_email"
    /\ \E ok \in BOOLEAN : log' = Append(log, SMTPCall("quit", ok, <<>>))
    /\ session' = "closed"
    /\ pc' = "return"
    /\ UNCHANGED <<config, op, args, locals, msg, bulk, exc, result, escaped>>

\* Line 79: quit() closes the socket whether or not the QUIT exchange completes.
send_email_quit ==
    /\ pc = "quit" /\ op = "send_email"
    /\ \E ok \in BOOLEAN :
        /\ log' = Append(log, SMTPCall("quit", ok, <<>>))
        /\ session' = "closed"
        /\ IF ok THEN pc' = "return" /\ UNCHANGED exc
                 ELSE Raise("quit failed")
    /\ UNCHANGED <<config, op, args, locals, msg, bulk, result, escaped>>

\* Line 81.
send_email_return ==
    /\ pc = "return" /\ op = "send_email"
    /\ result' = SuccessResult("Email sent successfully to {}", args.to_email)
    /\ pc' = "done"
    /\ UNCHANGED <<config, op, args, locals, msg, bulk, log, session, exc, escaped>>

\* Lines 83-84.
send_email_except ==
    /\ op = "send_email"
    /\ Except("Error sending email: {}")

-----------------------------------------------------------------------------
\* send_email_with_attachment, lines 88-158.

send_email_with_attachment_call ==
    \E to_email \in ToEmails, attachment_path \in Paths, use_tls \in BOOLEAN :
        /\ Enter("send_email_with_attachment",
                 [NoArgs EXCEPT !.to_email = to_email,
                                !.attachment_path = attachment_path,
                                !.use_tls = use_tls])
        /\ pc' = "config"

\* Lines 110-117.
send_email_with_attachment_config ==
    /\ pc = "config" /\ op = "send_email_with_attachment"
    /\ IF PortOrDefaultRaises
       THEN /\ Raise(IntError(getenv("SMTP_PORT")))
            /\ UNCHANGED <<locals, result>>
       ELSE /\ locals' = CredentialsWithDefaults
            /\ IF ~ConfigComplete(CredentialsWithDefaults)
               THEN /\ result' = ErrorResult("Error: Missing required email configuration.", "")
                    /\ pc' = "done"
               ELSE /\ pc' = "exists"
                    /\ UNCHANGED result
            /\ UNCHANGED exc
    /\ UNCHANGED <<config, op, args, msg, bulk, log, session, escaped>>

\* send_email_with_attachment_exists with a missing file skipped instead of
\* reported: the message goes out without its attachment.
send_email_with_attachment_exists_skipped ==
    /\ pc = "exists" /\ op = "send_email_with_attachment"
    /\ pc' = IF ~path_exists(args.attachment_path) THEN "connect" ELSE "build"
    /\ UNCHANGED <<config, op, args, locals, msg, bulk, log, session, exc,
                   result, escaped>>

\* Lines 120-121.
send_email_with_attachment_exists ==
    /\ pc = "exists" /\ op = "send_email_with_attachment"
    /\ IF ~path_exists(args.attachment_path)
       THEN /\ result' = ErrorResult("Error: Attachment file not found: {}",
                                     args.attachment_path)
            /\ pc' = "done"
       ELSE /\ pc' = "build"
            /\ UNCHANGED result
    /\ UNCHANGED <<config, op, args, locals, msg, bulk, log, session, exc, escaped>>

\* Lines 124-143: the body part, then the attachment read from the file.
send_email_with_attachment_build ==
    /\ pc = "build" /\ op = "send_email_with_attachment"
    /\ IF open_raises(args.attachment_path)
       THEN /\ msg' = [From |-> locals.from_email, To |-> args.to_email,
                       parts |-> <<"plain">>]
            /\ Raise("open failed")
       ELSE /\ msg' = [From |-> locals.from_email, To |-> args.to_email,
                       parts |-> <<"plain", "octet-stream">>]
            /\ pc' = "connect"
            /\ UNCHANGED exc
    /\ UNCHANGED <<config, op, args, locals, bulk, log, session, result, escaped>>

\* Line 146.
send_email_with_attachment_connect ==
    /\ pc = "connect" /\ op = "send_email_with_attachment"
    /\ \E ok \in BOOLEAN :
        /\ log' = Append(log, SMTPCall("connect", ok, <<>>))
        /\ IF ok
           THEN session' = "open" /\ pc' = "starttls" /\ UNCHANGED exc
           ELSE Raise("connect failed") /\ UNCHANGED session
    /\ UNCHANGED <<config, op, args, locals, msg, bulk, result, escaped>>

\* Lines 148-149.
send_email_with_attachment_starttls ==
    /\ pc = "starttls" /\ op = "send_email_with_attachment"
    /\ IF args.use_tls
       THEN \E ok \in BOOLEAN :
               /\ log' = Append(log, SMTPCall("starttls", ok, <<>>))
               /\ IF ok THEN pc' = "login" /\ UNCHANGED exc
                        ELSE Raise("starttls failed")
       ELSE pc' = "login" /\ UNCHANGED <<log, exc>>
    /\ UNCHANGED <<config, op, args, locals, msg, bulk, session, result, escaped>>

\* Line 151.
send_email_with_attachment_login ==
    /\ pc = "login" /\ op = "send_email_with_attachment"
    /\ \E ok \in BOOLEAN :
        /\ log' = Append(log, SMTPCall("login", ok, <<>>))
        /\ IF ok THEN pc' = "send" /\ UNCHANGED exc
                 ELSE Raise("login failed")
    /\ UNCHANGED <<config, op, args, locals, msg, bulk, session, result, escaped>>

\* Line 152.
send_email_with_attachment_send_message ==
    /\ pc = "send" /\ op = "send_email_with_attachment"
    /\ \E ok \in BOOLEAN :
        /\ log' = Append(log, SMTPCall("send_message", ok, msg.To))
        /\ IF ok THEN pc' = "quit" /\ UNCHANGED exc
                 ELSE Raise("send failed")
    /\ UNCHANGED <<config, op, args, locals, msg, bulk, session, result, escaped>>

\* Line 153.
send_email_with_attachment_quit ==
    /\ pc = "quit" /\ op = "send_email_with_attachment"
    /\ \E ok \in BOOLEAN :
        /\ log' = Append(log, SMTPCall("quit", ok, <<>>))
        /\ session' = "closed"
        /\ IF ok THEN pc' = "return" /\ UNCHANGED exc
                 ELSE Raise("quit failed")
    /\ UNCHANGED <<config, op, args, locals, msg, bulk, result, escaped>>

\* Line 155.
send_email_with_attachment_return ==
    /\ pc = "return" /\ op = "send_email_with_attachment"
    /\ result' = SuccessResult("Email with attachment sent successfully to {}",
                               args.to_email)
    /\ pc' = "done"
    /\ UNCHANGED <<config, op, args, locals, msg, bulk, log, session, exc, escaped>>

\* Lines 157-158.
send_email_with_attachment_except ==
    /\ op = "send_email_with_attachment"
    /\ Except("Error sending email with attachment: {}")

-----------------------------------------------------------------------------
\* send_bulk_emails, lines 162-228.

send_bulk_emails_call ==
    \E recipients \in Strings(MaxLen), use_tls \in BOOLEAN :
        /\ Enter("send_bulk_emails", [NoArgs EXCEPT !.recipients = recipients,
                                                    !.use_tls = use_tls])
        /\ pc' = "parse"

\* Line 182.
send_bulk_emails_parse ==
    /\ pc = "parse" /\ op = "send_bulk_emails"
    /\ recipient_list' = parse_recipients(args.recipients)
    /\ pc' = "config"
    /\ UNCHANGED <<config, op, args, locals, msg, idx, successful, failed, log,
                   session, exc, result, escaped>>

\* Lines 185-192.
send_bulk_emails_config ==
    /\ pc = "config" /\ op = "send_bulk_emails"
    /\ IF PortOrEnvRaises
       THEN /\ Raise(IntError(getenv("SMTP_PORT")))
            /\ UNCHANGED <<locals, result>>
       ELSE /\ locals' = CredentialsFromEnv
            /\ IF ~ConfigComplete(CredentialsFromEnv)
               THEN /\ result' = ErrorResult("Error: Missing required email configuration.", "")
                    /\ pc' = "done"
               ELSE /\ pc' = "connect"
                    /\ UNCHANGED result
            /\ UNCHANGED exc
    /\ UNCHANGED <<config, op, args, msg, bulk, log, session, escaped>>

\* Line 195.
send_bulk_emails_connect ==
    /\ pc = "connect" /\ op = "send_bulk_emails"
    /\ \E ok \in BOOLEAN :
        /\ log' = Append(log, SMTPCall("connect", ok, <<>>))
        /\ IF ok
           THEN session' = "open" /\ pc' = "starttls" /\ UNCHANGED exc
           ELSE Raise("connect failed") /\ UNCHANGED session
    /\ UNCHANGED <<config, op, args, locals, msg, bulk, result, escaped>>

\* Lines 197-198.
send_bulk_emails_starttls ==
    /\ pc = "starttls" /\ op = "send_bulk_emails"
    /\ IF args.use_tls
       THEN \E ok \in BOOLEAN :
               /\ log' = Append(log, SMTPCall("starttls", ok, <<>>))
               /\ IF ok THEN pc' = "login" /\ UNCHANGED exc
                        ELSE Raise("starttls failed")
       ELSE pc' = "login" /\ UNCHANGED <<log, exc>>
    /\ UNCHANGED <<config, op, args, locals, msg, bulk, session, result, escaped>>

\* send_bulk_emails_login with the outcome of login() ignored.
send_bulk_emails_login_unchecked ==
    /\ pc = "login" /\ op = "send_bulk_emails"
    /\ \E ok \in BOOLEAN : log' = Append(log, SMTPCall("login", ok, <<>>))
    /\ pc' = "loop"
    /\ successful' = <<>>
    /\ failed' = <<>>
    /\ idx' = 1
    /\ UNCHANGED <<config, op, args, locals, msg, recipient_list, session, exc,
                   result, escaped>>

\* Lines 200-204: login, then the two empty result lists.
send_bulk_emails_login ==
    /\ pc = "login" /\ op = "send_bulk_emails"
    /\ \E ok \in BOOLEAN :
        /\ log' = Append(log, SMTPCall("login", ok, <<>>))
        /\ IF ok THEN pc' = "loop" /\ UNCHANGED exc
                 ELSE Raise("login failed")
    /\ successful' = <<>>
    /\ failed' = <<>>
    /\ idx' = 1
    /\ UNCHANGED <<config, op, args, locals, msg, recipient_list, session,
                   result, escaped>>

\* send_bulk_emails_send with a failed send not recorded in `failed`.
send_bulk_emails_send_unrecorded ==
    /\ pc = "loop" /\ op = "send_bulk_emails"
    /\ idx <= Len(recipient_list)
    /\ LET recipient == recipient_list[idx]
       IN  /\ msg' = [From |-> locals.from_email, To |-> recipient,
                      parts |-> <<"plain">>]
           /\ \E ok \in BOOLEAN :
               /\ log' = Append(log, SMTPCall("send_message", ok, recipient))
               /\ successful' = IF ok THEN Append(successful, recipient)
                                      ELSE successful
    /\ idx' = idx + 1
    /\ UNCHANGED <<config, pc, op, args, locals, recipient_list, failed, session,
                   exc, result, escaped>>

\* send_bulk_emails_send with the loop left at the first failed send.
send_bulk_emails_send_break ==
    /\ pc = "loop" /\ op = "send_bulk_emails"
    /\ idx <= Len(recipient_list)
    /\ LET recipient == recipient_list[idx]
       IN  /\ msg' = [From |-> locals.from_email, To |-> recipient,
                      parts |-> <<"plain">>]
           /\ \E ok \in BOOLEAN :
               /\ log' = Append(log, SMTPCall("send_message", ok, recipient))
               /\ IF ok
                  THEN /\ successful' = Append(successful, recipient)
                       /\ idx' = idx + 1
                       /\ UNCHANGED failed
                  ELSE /\ failed' = Append(failed, <<recipient, "send failed">>)
                       /\ idx' = Len(recipient_list) + 1
                       /\ UNCHANGED successful
    /\ UNCHANGED <<config, pc, op, args, locals, recipient_list, session, exc,
                   result, escaped>>

\* send_bulk_emails_send with a session of its own for every recipient.
send_bulk_emails_send_reconnect ==
    /\ pc = "loop" /\ op = "send_bulk_emails"
    /\ idx <= Len(recipient_list)
    /\ LET recipient == recipient_list[idx]
       IN  /\ msg' = [From |-> locals.from_email, To |-> recipient,
                      parts |-> <<"plain">>]
           /\ \E ok \in BOOLEAN :
               /\ log' = log \o <<SMTPCall("connect", TRUE, <<>>),
                                  SMTPCall("login", TRUE, <<>>),
                                  SMTPCall("send_message", ok, recipient)>>
               /\ IF ok
                  THEN /\ successful' = Append(successful, recipient)
                       /\ UNCHANGED failed
                  ELSE /\ failed' = Append(failed, <<recipient, "send failed">>)
                       /\ UNCHANGED successful
    /\ idx' = idx + 1
    /\ UNCHANGED <<config, pc, op, args, locals, recipient_list, session, exc,
                   result, escaped>>

\* Lines 206-217: one iteration of the for loop.  An exception raised by
\* send_message is caught by the inner except and recorded in `failed`.
send_bulk_emails_send ==
    /\ pc = "loop" /\ op = "send_bulk_emails"
    /\ idx <= Len(recipient_list)
    /\ LET recipient == recipient_list[idx]
       IN  /\ msg' = [From |-> locals.from_email, To |-> recipient,
                      parts |-> <<"plain">>]
           /\ \E ok \in BOOLEAN :
               /\ log' = Append(log, SMTPCall("send_message", ok, recipient))
               /\ IF ok
                  THEN /\ successful' = Append(successful, recipient)
                       /\ UNCHANGED failed
                  ELSE /\ failed' = Append(failed, <<recipient, "send failed">>)
                       /\ UNCHANGED successful
    /\ idx' = idx + 1
    /\ UNCHANGED <<config, pc, op, args, locals, recipient_list, session, exc,
                   result, escaped>>

\* Line 219, reached when the loop has run over the whole list.
send_bulk_emails_quit ==
    /\ pc = "loop" /\ op = "send_bulk_emails"
    /\ idx > Len(recipient_list)
    /\ \E ok \in BOOLEAN :
        /\ log' = Append(log, SMTPCall("quit", ok, <<>>))
        /\ session' = "closed"
        /\ IF ok THEN pc' = "return" /\ UNCHANGED exc
                 ELSE Raise("quit failed")
    /\ UNCHANGED <<config, op, args, locals, msg, bulk, result, escaped>>

\* Lines 221-225.
send_bulk_emails_return ==
    /\ pc = "return" /\ op = "send_bulk_emails"
    /\ result' = SummaryResult(successful, failed)
    /\ pc' = "done"
    /\ UNCHANGED <<config, op, args, locals, msg, bulk, log, session, exc, escaped>>

\* Lines 227-228.
send_bulk_emails_except ==
    /\ op = "send_bulk_emails"
    /\ Except("Error sending bulk emails: {}")

-----------------------------------------------------------------------------
Next ==
    \/ respond
    \/ send_email_call
    \/ send_email_config
    \/ send_email_build
    \/ send_email_connect
    \/ send_email_starttls
    \/ send_email_login
    \/ send_email_send_message
    \/ send_email_quit
    \/ send_email_return
    \/ send_email_except
    \/ send_email_with_attachment_call
    \/ send_email_with_attachment_config
    \/ send_email_with_attachment_exists
    \/ send_email_with_attachment_build
    \/ send_email_with_attachment_connect
    \/ send_email_with_attachment_starttls
    \/ send_email_with_attachment_login
    \/ send_email_with_attachment_send_message
    \/ send_email_with_attachment_quit
    \/ send_email_with_attachment_return
    \/ send_email_with_attachment_except
    \/ send_bulk_emails_call
    \/ send_bulk_emails_parse
    \/ send_bulk_emails_config
    \/ send_bulk_emails_connect
    \/ send_bulk_emails_starttls
    \/ send_bulk_emails_login
    \/ send_bulk_emails_send
    \/ send_bulk_emails_quit
    \/ send_bulk_emails_return
    \/ send_bulk_emails_except

Spec == Init /\ [][Next]_vars

-----------------------------------------------------------------------------
\* Observations on the transport log of the running invocation.

Calls(name) == {i \in 1..Len(log) : log[i].call = name}

Count(name) == Cardinality(Calls(name))

\* The call `name` was made and completed without raising.
Completed(name) == \E i \in Calls(name) : log[i].ok

\* The call `name` was made and raised.
Failed(name) == \E i \in Calls(name) : ~log[i].ok

\* The recipients of the send_message calls, in the order of the calls.
IsSend(c) == c.call = "send_message"

SentTo == LET sends == SelectSeq(log, IsSend)
          IN  [i \in 1..Len(sends) |-> sends[i].to]

\* A sequence as a bag of its entries.
BagOfSeq(q) ==
    [x \in {q[i] : i \in 1..Len(q)} |-> Cardinality({i \in 1..Len(q) : q[i] = x})]

\* The recipients named by the entries of `failed`.
FailedRecipients == [i \in 1..Len(failed) |-> failed[i][1]]

Running == op # "none"

Returned == pc = "done"

-----------------------------------------------------------------------------
\* C1: for each of the three tools and each of the five configuration
\* variables, a call made while that variable is unset returns an error
\* string and makes no connection attempt.
C1_MissingConfigNoConnect ==
    \A n \in EnvNames :
        (Running /\ environ[n] = None) =>
            /\ Count("connect") = 0
            /\ Returned => result.kind = "error"

\* C2: send_email_with_attachment called with a path that does not exist
\* returns an error string and makes no call on the transport at all.
C2_MissingAttachmentNoConnect ==
    (op = "send_email_with_attachment" /\ ~path_exists(args.attachment_path)) =>
        /\ log = <<>>
        /\ session = "none"
        /\ Returned => result.kind = "error"

C2_Witness ==
    /\ op = "send_email_with_attachment"
    /\ ~path_exists(args.attachment_path)
    /\ ConfigComplete(locals)
    /\ Returned
    /\ result.text = "Error: Attachment file not found: {}"

\* C3: every invocation ends by returning a string: no exception leaves the
\* tool, and a step that raised is reported as an error string carrying its
\* reason.
C3_AlwaysReturnsString ==
    /\ ~escaped
    /\ Returned => result.kind \in {"success", "error", "summary"}
    /\ (Returned /\ exc # "") => (result.kind = "error" /\ result.reason = exc)

C3_Witness ==
    /\ Returned
    /\ op = "send_bulk_emails"
    /\ exc = "quit failed"
    /\ result.kind = "error"

\* C4: with all five variables set, send_email returns the success string
\* naming the recipient exactly when connect, STARTTLS (if asked for), login,
\* send_message and quit all completed; otherwise it returns an error string.
C4_EnvComplete == \A n \in EnvNames : Truthy(environ[n])

C4_AllStepsCompleted ==
    /\ Completed("connect")
    /\ args.use_tls => Completed("starttls")
    /\ Completed("login")
    /\ Completed("send_message")
    /\ Completed("quit")

C4_SuccessIffAllSteps ==
    (op = "send_email" /\ Returned /\ C4_EnvComplete) =>
        /\ result.kind = "success" <=> C4_AllStepsCompleted
        /\ result.kind = "success" => result.to = args.to_email
        /\ ~C4_AllStepsCompleted => result.kind = "error"

C4_Witness ==
    /\ op = "send_email" /\ Returned /\ C4_EnvComplete
    /\ args.use_tls
    /\ result.kind = "success"
    /\ result.to = <<"b">>

\* C5: what the claim says of a bulk invocation: the entries of the
\* recipient list are split between `successful` and `failed`, and the
\* counts reported in the result add up to the length of the list.
C5_Partition ==
    /\ result.kind = "summary"
    /\ BagOfSeq(successful) (+) BagOfSeq(FailedRecipients) = BagOfSeq(recipient_list)
    /\ result.sent = Len(successful)
    /\ result.failed = failed
    /\ result.failed_part <=> failed # <<>>
    /\ result.sent + result.nfailed = Len(recipient_list)

\* C5 as stated: whenever the session was established (login completed), the
\* returned result is that partition.
C5_PartitionWheneverEstablished ==
    (op = "send_bulk_emails" /\ Returned /\ Completed("login")) => C5_Partition

\* C5 as amended: the partition is returned when, in addition, the final
\* quit completed; a quit that raises turns the whole result into one error.
C5_PartitionWhenQuitCompleted ==
    /\ (op = "send_bulk_emails" /\ Returned /\ Completed("login") /\ Completed("quit"))
           => C5_Partition
    /\ (op = "send_bulk_emails" /\ Returned /\ Completed("login") /\ Failed("quit"))
           => result.kind = "error"

C5_Witness ==
    /\ op = "send_bulk_emails" /\ Returned
    /\ Completed("quit")
    /\ recipient_list = <<<<"a">>, <<"a">>>>
    /\ successful = <<<<"a">>>>
    /\ Len(failed) = 1

\* C6: once login has completed, send_message is attempted once for every
\* entry of the trimmed comma-separated list, in the order given; a failed
\* send is recorded with its reason and the loop goes on to the end.
C6_Commas(q) == Cardinality({i \in 1..Len(q) : q[i] = ","})

C6_Trimmed(q) ==
    /\ \A i \in 1..Len(q) : q[i] # ","
    /\ q # <<>> => (q[1] # " " /\ q[Len(q)] # " ")

C6_IsSubstring(q, r) ==
    \E i \in 1..(Len(r) + 1) : \E j \in (i - 1)..Len(r) : q = SubSeq(r, i, j)

C6_FailedSends ==
    LET bad(c) == c.call = "send_message" /\ ~c.ok
        sends  == SelectSeq(log, bad)
    IN  [i \in 1..Len(sends) |-> <<sends[i].to, "send failed">>]

C6_EveryRecipientAttempted ==
    (op = "send_bulk_emails" /\ Completed("login")) =>
        /\ Len(recipient_list) = C6_Commas(args.recipients) + 1
        /\ \A i \in 1..Len(recipient_list) :
              /\ C6_Trimmed(recipient_list[i])
              /\ C6_IsSubstring(recipient_list[i], args.recipients)
        /\ SentTo = SubSeq(recipient_list, 1, idx - 1)
        /\ failed = C6_FailedSends
        /\ pc # "loop" => SentTo = recipient_list

C6_Witness ==
    /\ op = "send_bulk_emails" /\ Returned
    /\ args.recipients = <<"a", ",", " ">>
    /\ SentTo = <<<<"a">>, <<>>>>
    /\ ~log[Len(log) - 2].ok
    /\ log[Len(log) - 1].ok

\* C7: a bulk invocation that gets to its recipients uses one session: one
\* connect, at most one STARTTLS and one login, whatever the recipients and
\* the outcomes of their sends, and quit is called once, after the send for
\* the last recipient; nothing is sent after it.
C7_OneSession ==
    op = "send_bulk_emails" =>
        /\ Count("connect") <= 1 /\ Count("starttls") <= 1
        /\ Count("login") <= 1 /\ Count("quit") <= 1
        /\ \A i \in Calls("quit") :
              /\ i = Len(log)
              /\ Count("send_message") = Len(recipient_list)
        /\ (Completed("login") /\ pc \in {"except", "return", "done"}) =>
              /\ Count("connect") = 1 /\ Count("login") = 1 /\ Count("quit") = 1
              /\ Count("starttls") = (IF args.use_tls THEN 1 ELSE 0)
              /\ session = "closed"

C7_Witness ==
    /\ op = "send_bulk_emails" /\ Returned
    /\ Len(recipient_list) = 3
    /\ Count("send_message") = 3
    /\ Failed("send_message") /\ Completed("send_message")
    /\ Count("quit") = 1
    /\ result.kind = "summary"

\* C8: in all three tools STARTTLS is never called when use_tls is false;
\* when use_tls is true it is the call made right after a completed connect,
\* and login is only ever called after a STARTTLS that completed.
C8_StarttlsFollowsFlag ==
    Running =>
        /\ ~args.use_tls => Count("starttls") = 0
        /\ (args.use_tls /\ Completed("connect") /\ pc # "starttls") =>
              /\ Len(log) >= 2
              /\ log[1].call = "connect" /\ log[2].call = "starttls"
        /\ args.use_tls =>
              \A i \in Calls("login") :
                  \E j \in Calls("starttls") : j < i /\ log[j].ok

C8_Witness ==
    /\ op = "send_email_with_attachment" /\ Returned
    /\ args.use_tls
    /\ Len(log) >= 3
    /\ log[2].call = "starttls" /\ log[3].call = "login"

\* C9: in all three tools a message is sent only after connect and login
\* have completed; a failure of the configuration check, connect, STARTTLS or
\* login ends in an error string with no send attempted, and for
\* send_bulk_emails a failed login yields one error, not a summary.
C9_EarlyFailure ==
    \/ ~ConfigComplete(locals)
    \/ Failed("connect") \/ Failed("starttls") \/ Failed("login")

C9_SendOnlyWhenAuthenticated ==
    Running =>
        /\ \A i \in Calls("send_message") :
              /\ ConfigComplete(locals)
              /\ \E j \in Calls("connect") : j < i /\ log[j].ok
              /\ \E j \in Calls("login") : j < i /\ log[j].ok
        /\ (Returned /\ C9_EarlyFailure) =>
              /\ result.kind = "error"
              /\ Count("send_message") = 0
        /\ (op = "send_bulk_emails" /\ Failed("login")) =>
              /\ successful = <<>> /\ failed = <<>>
              /\ Count("send_message") = 0

C9_Witness ==
    /\ op = "send_bulk_emails" /\ Returned
    /\ Len(recipient_list) = 2
    /\ Failed("login")
    /\ result.kind = "error"
    /\ result.reason = "login failed"

\* C10: in all three tools a session that was opened has been closed by the
\* time the tool returns, on the error paths as on the success path.
C10_SessionReleased ==
    (Running /\ Returned /\ Completed("connect")) => session = "closed"

====
